---- MODULE Spec2Model ----
(***************************************************************************)
(* A model of the resizable buffer of resizablebuffer.c: a flat byte       *)
(* range stored in fixed-size blocks that are borrowed from a buffer queue *)
(* (bque).  The controller state is struct _rbuf_ctx; the queue is the     *)
(* external block store, modelled from its interface contract.             *)
(***************************************************************************)
EXTENDS Integers, Sequences, FiniteSets, TLC

VARIABLES ctx, last, appended

vars == <<ctx, last, appended>>

(***************************************************************************)
(* Bounds of the model.                                                    *)
(***************************************************************************)
\* the width of rbuf_u32, scaled down from 32 bits: sums, differences and
\* products wrap modulo 2^W exactly as they wrap modulo 2^32 in the code
W == 3
\* longest source sequence whose contents are enumerated byte by byte
MaxLen == 2
\* most bytes of block memory the store can hand out
MaxBytes == 6

Mod == 2 ^ W

\* values of a byte
Byte == {0, 1}
\* marks a byte of the caller's destination buffer that no memcpy has written
Untouched == 0 - 1

\* block sizes and maximum sizes a buffer is created with (the defaults are
\* 512 and 1024); every configuration keeps size_max + block_size within
\* rbuf_u32, so that block_size * block_num is representable
BlockSizes == {2, 3}
SizeMaxes == {4, 5}

\* rbuf_u32 arithmetic
U32(x) == x % Mod

(***************************************************************************)
(* Result codes.                                                           *)
(***************************************************************************)
RBUF_OK == "RBUF_OK"
RBUF_ERR == "RBUF_ERR"
RBUF_ERR_NO_MEM == "RBUF_ERR_NO_MEM"
RBUF_ERR_BAD_OFFS == "RBUF_ERR_BAD_OFFS"
RBUF_ERR_BAD_SIZE == "RBUF_ERR_BAD_SIZE"
BQUE_OK == "BQUE_OK"
BQUE_ERR == "BQUE_ERR"
BQUE_ERR_NO_MEM == "BQUE_ERR_NO_MEM"
\* the call did not return: the process died in an out-of-bounds memcpy
CRASH == "CRASH"

(***************************************************************************)
(* The block store (bufferqueue): a sequence of blocks, index 0 at the     *)
(* head; blocks are appended and released at the tail.                     *)
(***************************************************************************)
\* bque_enqueue(bque, NULL, size): one more block at the tail; its bytes are
\* whatever the allocation holds (blk)
bque_enqueue(q, blk) == Append(q, blk)

\* bque_forfeit(bque, NULL, NULL): drop the tail block; fails on an empty queue
bque_forfeit(q) ==
    IF Len(q) = 0 THEN [res |-> BQUE_ERR, q |-> q]
    ELSE [res |-> BQUE_OK, q |-> SubSeq(q, 1, Len(q) - 1)]

\* bque_item(bque, idx, &buff): BQUE_OK iff idx names a held block (the
\* indices the controller passes are below 2^31, so the signed parameter of
\* bque_item holds them unchanged)
bque_item(q, idx) == IF idx < Len(q) THEN BQUE_OK ELSE BQUE_ERR

\* the block bque_item hands out (sequences are 1-based)
ItemPtr(q, idx) == q[idx + 1]

(***************************************************************************)
(* memcpy on byte sequences.  A copy that runs past the end of a buffer is *)
(* undefined: the bytes that fall inside are moved, bytes read from beyond *)
(* the end have an arbitrary value g, and the caller of these operators    *)
(* records the overrun.                                                    *)
(***************************************************************************)
\* the buffer buf after memcpy(buf + at, data, Len(data))
MemcpyIn(buf, at, data) ==
    [k \in 1..Len(buf) |->
        IF k > at /\ k - at <= Len(data) THEN data[k - at] ELSE buf[k]]

\* the n bytes memcpy(_, buf + at, n) reads
MemcpyOut(buf, at, n, g) ==
    [k \in 1..n |-> IF at + k <= Len(buf) THEN buf[at + k] ELSE g]

\* memcpy of n bytes at buf + at touches memory past the end of buf
Overrun(buf, at, n) == n > 0 /\ at + n > Len(buf)

(***************************************************************************)
(* rbuf_new: the context after construction.                               *)
(***************************************************************************)
rbuf_new(conf) ==
    [bque |-> <<>>,
     conf |-> conf,
     cache |-> [block_num |-> 0, buff_cap |-> 0, buff_size |-> 0,
                last_block_buff_size |-> 0]]

(***************************************************************************)
(* rbuf_status                                                             *)
(***************************************************************************)
rbuf_status(c) ==
    [res |-> RBUF_OK, ctx |-> c,
     stat |-> [block_num |-> c.cache.block_num, buff_size |-> c.cache.buff_size]]

(***************************************************************************)
(* rbuf_resize.  failAt, failKind and blk are the store's behaviour during *)
(* the call: the failAt-th bque_enqueue of the call fails with failKind    *)
(* (failAt = 0: none fails), and blk is the contents of a block as         *)
(* allocated.                                                              *)
(***************************************************************************)
\* a growth loop that appends nothing
EnqueueLoopNone(q, n, blk) == q

\* lines 156-165: append n blocks (the failing append is rbuf_resize's failAt)
RECURSIVE EnqueueLoop(_, _, _)
EnqueueLoop(q, n, blk) ==
    IF n = 0 THEN q ELSE EnqueueLoop(bque_enqueue(q, blk), n - 1, blk)

\* a shrink loop that releases the blocks at the head
ForfeitLoopHead(q, n) ==
    IF n > Len(q) THEN [res |-> BQUE_ERR, q |-> <<>>]
    ELSE [res |-> BQUE_OK, q |-> SubSeq(q, n + 1, Len(q))]

\* the shrink loop stopping one block early
ForfeitLoopShort(q, n) ==
    [res |-> BQUE_OK, q |-> SubSeq(q, 1, Len(q) - (IF n > 0 THEN n - 1 ELSE 0))]

\* lines 170-175: release n blocks, stop at the first failure
RECURSIVE ForfeitLoop(_, _)
ForfeitLoop(q, n) ==
    IF n = 0 THEN [res |-> BQUE_OK, q |-> q]
    ELSE LET r == bque_forfeit(q)
         IN IF r.res # BQUE_OK THEN r ELSE ForfeitLoop(r.q, n - 1)

\* the size of the last block as the bare remainder
UpdateSizesRemainder(cache, block_size, size) ==
    [cache EXCEPT !.buff_size = size,
                  !.last_block_buff_size = size % block_size]

\* lines 181-190: the buffer size and the size of the last block
UpdateSizes(cache, block_size, size) ==
    [cache EXCEPT
        !.buff_size = size,
        !.last_block_buff_size =
            IF size \div block_size # 0 /\ size % block_size = 0
            THEN block_size
            ELSE size % block_size]

\* the size check off by one
TooLargeOffByOne(c, size) == size > c.conf.size_max + 1

\* line 147: the size is too large
TooLarge(c, size) == size > c.conf.size_max

\* the block count rounded down
NewBlockNumFloor(block_size, size) == size \div block_size

\* lines 151-153: the blocks a buffer of this size needs
NewBlockNum(block_size, size) ==
    LET new_block_num_quotient == size \div block_size
        new_block_num_remainder == size % block_size
    IN U32(new_block_num_quotient
           + (IF new_block_num_remainder # 0 THEN 1 ELSE 0))

\* the capacity updated, the block count forgotten
SetBlocksCapOnly(cache, block_size, new_block_num) ==
    [cache EXCEPT !.buff_cap = U32(block_size * new_block_num)]

\* lines 166-167 and 177-178: the block count and the capacity
SetBlocks(cache, block_size, new_block_num) ==
    [cache EXCEPT !.block_num = new_block_num,
                  !.buff_cap = U32(block_size * new_block_num)]

rbuf_resize(c, size, failAt, failKind, blk) ==
    LET block_size == c.conf.block_size
        new_block_num == NewBlockNum(block_size, size)
    IN
    IF TooLarge(c, size) THEN
        [res |-> RBUF_ERR_BAD_SIZE, ctx |-> c, storefail |-> FALSE]
    ELSE IF new_block_num > c.cache.block_num THEN
        LET block_num_diff == U32(new_block_num - c.cache.block_num) IN
        IF failAt \in 1..block_num_diff THEN
            [res |-> IF failKind = BQUE_ERR_NO_MEM
                     THEN RBUF_ERR_NO_MEM ELSE RBUF_ERR,
             ctx |-> [c EXCEPT !.bque = EnqueueLoop(@, failAt - 1, blk)],
             storefail |-> TRUE]
        ELSE
            [res |-> RBUF_OK,
             ctx |-> [c EXCEPT
                 !.bque = EnqueueLoop(@, block_num_diff, blk),
                 !.cache = UpdateSizes(
                     SetBlocks(@, block_size, new_block_num),
                     block_size, size)],
             storefail |-> FALSE]
    ELSE IF new_block_num < c.cache.block_num THEN
        LET block_num_diff == U32(c.cache.block_num - new_block_num)
            f == ForfeitLoop(c.bque, block_num_diff)
        IN
        IF f.res # BQUE_OK THEN
            [res |-> RBUF_ERR, ctx |-> [c EXCEPT !.bque = f.q],
             storefail |-> TRUE]
        ELSE
            [res |-> RBUF_OK,
             ctx |-> [c EXCEPT
                 !.bque = f.q,
                 !.cache = UpdateSizes(
                     SetBlocks(@, block_size, new_block_num),
                     block_size, size)],
             storefail |-> FALSE]
    ELSE
        [res |-> RBUF_OK,
         ctx |-> [c EXCEPT !.cache = UpdateSizes(@, block_size, size)],
         storefail |-> FALSE]

(***************************************************************************)
(* rbuf_copy_from.  buff is the caller's source, Len(buff) = size bytes.   *)
(***************************************************************************)
\* lines 254-270: the blocks after the first; s is the loop state
\* [q, i, buff_offs, rest_size, oob]
RECURSIVE CopyFromLoop(_, _, _, _, _)
CopyFromLoop(s, buff, block_size, ending_block_idx, g) ==
    IF ~(s.i < U32(ending_block_idx + 1)) THEN
        [res |-> RBUF_OK, q |-> s.q, oob |-> s.oob]
    ELSE IF bque_item(s.q, s.i) # BQUE_OK THEN
        [res |-> RBUF_ERR, q |-> s.q, oob |-> s.oob]
    ELSE
        LET curt_size == IF s.rest_size > block_size
                         THEN block_size ELSE s.rest_size
        IN CopyFromLoop(
               [q |-> [s.q EXCEPT ![s.i + 1] =
                          MemcpyIn(@, 0, MemcpyOut(buff, s.buff_offs, curt_size, g))],
                i |-> U32(s.i + 1),
                buff_offs |-> U32(s.buff_offs + curt_size),
                rest_size |-> U32(s.rest_size - curt_size),
                oob |-> s.oob \/ Overrun(buff, s.buff_offs, curt_size)],
               buff, block_size, ending_block_idx, g)

\* lines 227-273: the copy into the blocks, after the implicit resize
CopyFromBlocks(c, buff, offs, size, new_size, g) ==
    LET block_size == c.conf.block_size
        starting_block_idx == offs \div block_size
        ending_block_idx == new_size \div block_size
        block_offs == offs % block_size
    IN
    IF bque_item(c.bque, starting_block_idx) # BQUE_OK THEN
        [res |-> RBUF_ERR, ctx |-> c, oob |-> FALSE]
    ELSE IF starting_block_idx = ending_block_idx THEN
        [res |-> RBUF_OK,
         ctx |-> [c EXCEPT !.bque[starting_block_idx + 1] =
                      MemcpyIn(@, block_offs, buff)],
         oob |-> Overrun(ItemPtr(c.bque, starting_block_idx), block_offs, size)]
    ELSE
        LET curt_size == block_size - block_offs
            first == [c.bque EXCEPT ![starting_block_idx + 1] =
                         MemcpyIn(@, block_offs, MemcpyOut(buff, 0, curt_size, g))]
            r == CopyFromLoop(
                     [q |-> first,
                      i |-> U32(starting_block_idx + 1),
                      buff_offs |-> curt_size,
                      rest_size |-> U32(size - curt_size),
                      oob |-> Overrun(buff, 0, curt_size)],
                     buff, block_size, ending_block_idx, g)
        IN [res |-> r.res, ctx |-> [c EXCEPT !.bque = r.q], oob |-> r.oob]

rbuf_copy_from(c, buff, offs, size, failAt, failKind, blk, g) ==
    LET new_size == U32(offs + size)
        rs == IF new_size > c.cache.buff_cap
              THEN rbuf_resize(c, new_size, failAt, failKind, blk)
              ELSE [res |-> RBUF_OK, ctx |-> c, storefail |-> FALSE]
    IN
    IF rs.res # RBUF_OK THEN
        [res |-> rs.res, ctx |-> rs.ctx, oob |-> FALSE, storefail |-> rs.storefail]
    ELSE
        LET cp == CopyFromBlocks(rs.ctx, buff, offs, size, new_size, g)
        IN [res |-> cp.res, ctx |-> cp.ctx, oob |-> cp.oob, storefail |-> FALSE]

(***************************************************************************)
(* rbuf_append                                                             *)
(***************************************************************************)
rbuf_append(c, buff, size, failAt, failKind, blk, g) ==
    rbuf_copy_from(c, buff, c.cache.buff_size, size, failAt, failKind, blk, g)

(***************************************************************************)
(* rbuf_copy_to.  The caller's destination holds size bytes, none written  *)
(* yet.                                                                    *)
(***************************************************************************)
\* lines 348-364: the blocks after the first; s is the loop state
\* [dest, i, buff_offs, rest_size, oob]
RECURSIVE CopyToLoop(_, _, _, _, _)
CopyToLoop(s, q, block_size, ending_block_idx, g) ==
    IF ~(s.i < U32(ending_block_idx + 1)) THEN
        [res |-> RBUF_OK, dest |-> s.dest, oob |-> s.oob]
    ELSE IF bque_item(q, s.i) # BQUE_OK THEN
        [res |-> RBUF_ERR, dest |-> s.dest, oob |-> s.oob]
    ELSE
        LET curt_size == IF s.rest_size > block_size
                         THEN block_size ELSE s.rest_size
        IN CopyToLoop(
               [dest |-> MemcpyIn(s.dest, s.buff_offs,
                                  MemcpyOut(ItemPtr(q, s.i), 0, curt_size, g)),
                i |-> U32(s.i + 1),
                buff_offs |-> U32(s.buff_offs + curt_size),
                rest_size |-> U32(s.rest_size - curt_size),
                oob |-> s.oob \/ Overrun(s.dest, s.buff_offs, curt_size)],
               q, block_size, ending_block_idx, g)

\* lines 321-367: the copy out of the blocks, after the range checks
CopyToBlocks(c, buff, offs, size, ending_byte_no, g) ==
    LET block_size == c.conf.block_size
        starting_block_idx == offs \div block_size
        ending_block_idx == ending_byte_no \div block_size
        block_offs == offs % block_size
    IN
    IF bque_item(c.bque, starting_block_idx) # BQUE_OK THEN
        [res |-> RBUF_ERR, dest |-> buff, oob |-> FALSE]
    ELSE IF starting_block_idx = ending_block_idx THEN
        [res |-> RBUF_OK,
         dest |-> MemcpyIn(buff, 0,
                     MemcpyOut(ItemPtr(c.bque, starting_block_idx), block_offs, size, g)),
         oob |-> Overrun(ItemPtr(c.bque, starting_block_idx), block_offs, size)]
    ELSE
        LET curt_size == block_size - block_offs
        IN CopyToLoop(
               [dest |-> MemcpyIn(buff, 0,
                            MemcpyOut(ItemPtr(c.bque, starting_block_idx),
                                      block_offs, curt_size, g)),
                i |-> U32(starting_block_idx + 1),
                buff_offs |-> curt_size,
                rest_size |-> U32(size - curt_size),
                oob |-> Overrun(buff, 0, curt_size)],
               c.bque, block_size, ending_block_idx, g)

\* the caller's destination before the call
Blank(size) == [k \in 1..size |-> Untouched]

\* a copy-out that grows the buffer to the end of the range, as copy-in does
rbuf_copy_to_growing(c, offs, size, g) ==
    LET ending_byte_no == U32(offs + size)
        rs == IF ending_byte_no > c.cache.buff_size
              THEN rbuf_resize(c, ending_byte_no, 0, BQUE_OK,
                               [i \in 1..c.conf.block_size |-> 0])
              ELSE [res |-> RBUF_OK, ctx |-> c, storefail |-> FALSE]
    IN
    IF rs.res # RBUF_OK THEN
        [res |-> rs.res, ctx |-> rs.ctx, dest |-> Blank(size), oob |-> FALSE]
    ELSE
        LET cp == CopyToBlocks(rs.ctx, Blank(size), offs, size, ending_byte_no, g)
        IN [res |-> cp.res, ctx |-> rs.ctx, dest |-> cp.dest, oob |-> cp.oob]

rbuf_copy_to(c, offs, size, g) ==
    LET ending_byte_no == U32(offs + size) IN
    IF offs > c.cache.buff_size THEN
        [res |-> RBUF_ERR_BAD_OFFS, ctx |-> c, dest |-> Blank(size), oob |-> FALSE]
    ELSE IF ending_byte_no > c.cache.buff_size THEN
        [res |-> RBUF_ERR_BAD_SIZE, ctx |-> c, dest |-> Blank(size), oob |-> FALSE]
    ELSE
        LET cp == CopyToBlocks(c, Blank(size), offs, size, ending_byte_no, g)
        IN [res |-> cp.res, ctx |-> c, dest |-> cp.dest, oob |-> cp.oob]

(***************************************************************************)
(* The state machine: one buffer, created by rbuf_new, and a caller that   *)
(* issues any call with any arguments.  last records the latest call: its  *)
(* arguments and what it returned.                                         *)
(***************************************************************************)
Confs == [block_size : BlockSizes, size_max : SizeMaxes]

\* a configuration whose size_max, rounded up to whole blocks, is 2^W bytes:
\* one more than an rbuf_u32 holds (as block_size 512 with size_max 2^32 - 1)
WideConfs == {[block_size |-> Mod \div 2, size_max |-> Mod - 1]}

\* size / block_size rounded up
Ceil(n, d) == (n + d - 1) \div d

Seqs(n) == [1..n -> Byte]

\* the caller's sources: every byte sequence up to MaxLen, and one sequence
\* of each greater length an rbuf_u32 size can state
Sources ==
    UNION {Seqs(n) : n \in 0..MaxLen}
        \cup {[k \in 1..n |-> k % 2] : n \in (MaxLen + 1)..(Mod - 1)}

NoStat == [block_num |-> 0, buff_size |-> 0]

Call(op, offs, size, src, res, dest, stat, oob, storefail) ==
    [op |-> op, offs |-> offs, size |-> size, src |-> src, res |-> res,
     dest |-> dest, stat |-> stat, oob |-> oob, storefail |-> storefail]

\* the blocks rbuf_resize(c, size) sets out to append
Growth(c, size) ==
    LET n == NewBlockNum(c.conf.block_size, size)
    IN IF ~TooLarge(c, size) /\ n > c.cache.block_num
       THEN U32(n - c.cache.block_num) ELSE 0

\* the blocks rbuf_copy_from(c, _, offs, size) sets out to append
CopyGrowth(c, offs, size) ==
    IF U32(offs + size) > c.cache.buff_cap
    THEN Growth(c, U32(offs + size)) ELSE 0

\* what the store may do during a call that sets out to append k blocks
FailAts(k) == 0..k
FailKinds(failAt) ==
    IF failAt = 0 THEN {BQUE_OK} ELSE {BQUE_ERR_NO_MEM, BQUE_ERR}
Fresh(c, k) ==
    IF k = 0 THEN {[i \in 1..c.conf.block_size |-> 0]}
    ELSE Seqs(c.conf.block_size)

\* the store's memory is bounded, at no less than the blocks a buffer of
\* size_max needs
Bounded(c) ==
    LET need == c.conf.block_size
                    * Ceil(c.conf.size_max, c.conf.block_size)
    IN Len(c.bque) * c.conf.block_size
           <= (IF need > MaxBytes THEN need ELSE MaxBytes)

\* the caller is between two calls
Idle == Call("idle", 0, 0, <<>>, RBUF_OK, <<>>, NoStat, FALSE, FALSE)
Ready == last = Idle

\* the values a byte read from beyond the end of a buffer may have in a call
\* with result r; a call that reads no such byte does not depend on them
Garbage(r) == IF r.oob THEN Byte ELSE {0}

\* an overrunning memcpy either kills the process or lets the call go on
Outcomes(res, oob) == IF oob THEN {res, CRASH} ELSE {res}

\* appended records the bytes of the appends so far, in call order, as long
\* as the buffer has been changed by nothing but appends that returned
\* RBUF_OK and their lengths sum up to at most size_max
NotTracked == [ok |-> FALSE, data |-> <<>>]
Track(a, c, res, buff) ==
    IF a.ok /\ res = RBUF_OK /\ Len(a.data) + Len(buff) <= c.conf.size_max
    THEN [ok |-> TRUE, data |-> a.data \o buff]
    ELSE NotTracked

Init ==
    /\ \E conf \in Confs : ctx = rbuf_new(conf)
    /\ last = Call("rbuf_new", 0, 0, <<>>, RBUF_OK, <<>>, NoStat, FALSE, FALSE)
    /\ appended = [ok |-> TRUE, data |-> <<>>]

\* In the actions a call's result is bound once (\E r \in {...}).  A copy is
\* first evaluated with 0 as the value of bytes read out of bounds (r0); only
\* a call that overruns depends on that value, and is taken with every g.
Status ==
    /\ Ready
    /\ \E r \in {rbuf_status(ctx)} :
          /\ ctx' = r.ctx
          /\ last' = Call("rbuf_status", 0, 0, <<>>, r.res, <<>>, r.stat,
                          FALSE, FALSE)
    /\ UNCHANGED appended

Resize ==
    /\ Ready
    /\ \E size \in 0..(Mod - 1) :
       \E failAt \in FailAts(Growth(ctx, size)) :
       \E failKind \in FailKinds(failAt), blk \in Fresh(ctx, Growth(ctx, size)) :
       \E r \in {rbuf_resize(ctx, size, failAt, failKind, blk)} :
          /\ Bounded(r.ctx)
          /\ ctx' = r.ctx
          /\ last' = Call("rbuf_resize", 0, size, <<>>, r.res, <<>>, NoStat,
                          FALSE, r.storefail)
    /\ appended' = NotTracked

CopyFrom ==
    /\ Ready
    /\ \E offs \in 0..(Mod - 1), buff \in Sources :
       \E failAt \in FailAts(CopyGrowth(ctx, offs, Len(buff))) :
       \E failKind \in FailKinds(failAt),
          blk \in Fresh(ctx, CopyGrowth(ctx, offs, Len(buff))) :
       \E r0 \in {rbuf_copy_from(ctx, buff, offs, Len(buff),
                                 failAt, failKind, blk, 0)} :
       \E g \in Garbage(r0) :
       \E r \in {IF g = 0 THEN r0
                 ELSE rbuf_copy_from(ctx, buff, offs, Len(buff),
                                     failAt, failKind, blk, g)} :
          /\ Bounded(r.ctx)
          /\ ctx' = r.ctx
          /\ \E res \in Outcomes(r.res, r.oob) :
                last' = Call("rbuf_copy_from", offs, Len(buff), buff, res, <<>>,
                             NoStat, r.oob, r.storefail)
    /\ appended' = NotTracked

AppendData ==
    /\ Ready
    /\ \E buff \in Sources :
       \E failAt \in FailAts(CopyGrowth(ctx, ctx.cache.buff_size, Len(buff))) :
       \E failKind \in FailKinds(failAt),
          blk \in Fresh(ctx, CopyGrowth(ctx, ctx.cache.buff_size, Len(buff))) :
       \E r0 \in {rbuf_append(ctx, buff, Len(buff), failAt, failKind, blk, 0)} :
       \E g \in Garbage(r0) :
       \E r \in {IF g = 0 THEN r0
                 ELSE rbuf_append(ctx, buff, Len(buff), failAt, failKind, blk, g)} :
          /\ Bounded(r.ctx)
          /\ ctx' = r.ctx
          /\ \E res \in Outcomes(r.res, r.oob) :
                /\ last' = Call("rbuf_append", ctx.cache.buff_size, Len(buff),
                                buff, res, <<>>, NoStat, r.oob, r.storefail)
                /\ appended' = Track(appended, ctx, res, buff)

CopyTo ==
    /\ Ready
    /\ \E offs \in 0..(Mod - 1), size \in 0..(Mod - 1) :
       \E r0 \in {rbuf_copy_to(ctx, offs, size, 0)} :
       \E g \in Garbage(r0) :
       \E r \in {IF g = 0 THEN r0 ELSE rbuf_copy_to(ctx, offs, size, g)} :
          /\ ctx' = r.ctx
          /\ \E res \in Outcomes(r.res, r.oob) :
                last' = Call("rbuf_copy_to", offs, size, <<>>, res, r.dest,
                             NoStat, r.oob, FALSE)
    /\ UNCHANGED appended

\* the caller takes the result of the call that returned; a call that
\* crashed never returns
Return ==
    /\ last # Idle
    /\ last.res # CRASH
    /\ last' = Idle
    /\ UNCHANGED <<ctx, appended>>

Next == Status \/ Resize \/ CopyFrom \/ AppendData \/ CopyTo \/ Return

Spec == Init /\ [][Next]_vars

\* the same caller and buffer, created with a configuration of WideConfs
InitWide ==
    /\ \E conf \in WideConfs : ctx = rbuf_new(conf)
    /\ last = Call("rbuf_new", 0, 0, <<>>, RBUF_OK, <<>>, NoStat, FALSE, FALSE)
    /\ appended = [ok |-> TRUE, data |-> <<>>]

SpecWide == InitWide /\ [][Next]_vars

(***************************************************************************)
(* The claims.                                                             *)
(***************************************************************************)
Max(a, b) == IF a >= b THEN a ELSE b
BlockSize == ctx.conf.block_size
SizeMax == ctx.conf.size_max
Held == Len(ctx.bque)

\* the bytes of the held blocks in logical order: block i covers the
\* positions i * block_size .. (i + 1) * block_size - 1
RECURSIVE Flat(_)
Flat(q) == IF q = <<>> THEN <<>> ELSE Head(q) \o Flat(Tail(q))

\* the range of size bytes at offs has bytes in more than one block
Crosses(offs, size, block_size) ==
    size > 0 /\ offs \div block_size < (offs + size - 1) \div block_size


\* C1: a resize to a size of at most size_max, during which no store call
\* fails, returns RBUF_OK, and the status then reports that size and
\* ceil(size / block_size) blocks.
C1_ResizeThenStatus ==
    (last.op = "rbuf_resize" /\ last.size <= SizeMax /\ ~last.storefail)
        => /\ last.res = RBUF_OK
           /\ rbuf_status(ctx).res = RBUF_OK
           /\ rbuf_status(ctx).stat.buff_size = last.size
           /\ rbuf_status(ctx).stat.block_num = Ceil(last.size, BlockSize)

\* a resize to a size that is no multiple of the block size, in a buffer
\* whose store holds blocks left by a failed growth
C1_Witness ==
    /\ last.op = "rbuf_resize" /\ last.res = RBUF_OK /\ ~last.storefail
    /\ last.size > BlockSize /\ last.size % BlockSize # 0
    /\ Held > ctx.cache.block_num

\* C2: in a buffer resized to a logical size N, copy_from of L > 0 bytes at
\* offset O with O + L <= N returns RBUF_OK, and copy_to of the same range
\* then returns RBUF_OK and the bytes written.
C2_RoundTrip ==
    [][(last'.op = "rbuf_copy_from"
            /\ last'.size > 0
            /\ last'.offs + last'.size <= ctx.cache.buff_size)
        => /\ last'.res = RBUF_OK
           /\ \A g \in Byte :
                LET r == rbuf_copy_to(ctx', last'.offs, last'.size, g)
                IN r.res = RBUF_OK /\ r.dest = last'.src]_vars

\* C3: after appends that all returned RBUF_OK on a fresh buffer, the
\* logical size is the sum of the appended lengths and copy_to of the whole
\* buffer yields the appended bytes in call order.
C3_AppendConcatenates ==
    (appended.ok /\ last.op = "rbuf_append")
        => /\ ctx.cache.buff_size = Len(appended.data)
           /\ \A g \in Byte :
                LET r == rbuf_copy_to(ctx, 0, ctx.cache.buff_size, g)
                IN r.res = RBUF_OK /\ r.dest = appended.data

\* C4: after a copy_from that returned RBUF_OK, of a range of length > 0
\* whose end offset + length is representable as an rbuf_u32, the logical
\* size is the greater of the previous logical size and offset + length,
\* and copy_to reads the range just written.
C4_CopyFromExtends ==
    [][(last'.op = "rbuf_copy_from" /\ last'.res = RBUF_OK
            /\ last'.size > 0
            /\ last'.offs + last'.size < Mod)
        => /\ ctx'.cache.buff_size
                = Max(ctx.cache.buff_size, last'.offs + last'.size)
           /\ \A g \in Byte :
                LET r == rbuf_copy_to(ctx', last'.offs, last'.size, g)
                IN r.res = RBUF_OK /\ r.dest = last'.src]_vars

\* C5: a resize to a size above size_max returns RBUF_ERR_BAD_SIZE and
\* leaves the cache, the store's blocks and every stored byte as they were.
C5_TooLargeRejected ==
    [][(last'.op = "rbuf_resize" /\ last'.size > ctx.conf.size_max)
        => (last'.res = RBUF_ERR_BAD_SIZE /\ ctx' = ctx)]_vars

\* a rejected resize of a buffer that holds data
C5_Witness ==
    /\ last.op = "rbuf_resize" /\ last.size > SizeMax
    /\ last.res = RBUF_ERR_BAD_SIZE
    /\ ctx.cache.buff_size > 0 /\ Held > 0

\* C6: copy_to returns RBUF_ERR_BAD_OFFS exactly when offset > logical size,
\* RBUF_ERR_BAD_SIZE exactly when offset <= logical size and offset + length
\* > logical size, and in both cases writes nothing to the destination.
C6_CopyToClassifies ==
    (last.op = "rbuf_copy_to" /\ last.res # CRASH)
        => /\ last.res = RBUF_ERR_BAD_OFFS <=> last.offs > ctx.cache.buff_size
           /\ last.res = RBUF_ERR_BAD_SIZE
                <=> (last.offs <= ctx.cache.buff_size
                        /\ last.offs + last.size > ctx.cache.buff_size)
           /\ last.res \in {RBUF_ERR_BAD_OFFS, RBUF_ERR_BAD_SIZE}
                => last.dest = Blank(last.size)

\* C7: a copy_from whose offset + length exceeds the capacity and size_max
\* returns RBUF_ERR_BAD_SIZE and changes nothing.
C7_CopyFromTooLarge ==
    [][(last'.op = "rbuf_copy_from"
            /\ last'.offs + last'.size > ctx.cache.buff_cap
            /\ last'.offs + last'.size > ctx.conf.size_max)
        => (last'.res = RBUF_ERR_BAD_SIZE /\ ctx' = ctx)]_vars

\* C8: a copy_to or a status that returns, whatever it returns, leaves the
\* cache, the store's blocks and every stored byte as they were.
C8_ReadsChangeNothing ==
    [][(last'.op \in {"rbuf_copy_to", "rbuf_status"} /\ last'.res # CRASH)
        => ctx' = ctx]_vars

\* a copy_to refused for its length although the range lies within the
\* capacity, where a copy_from would have grown the logical size
C8_Witness ==
    /\ last.op = "rbuf_copy_to" /\ last.res = RBUF_ERR_BAD_SIZE
    /\ last.offs + last.size <= ctx.cache.buff_cap
    /\ last.size > 0

\* C9: after a resize that returned RBUF_OK, the same resize again returns
\* RBUF_OK whatever the store would do, appends and releases no block and
\* leaves the cache as it is.
C9_ResizeIdempotent ==
    (last.op = "rbuf_resize" /\ last.res = RBUF_OK)
        => \A failAt \in FailAts(MaxBytes) :
           \A failKind \in FailKinds(failAt), blk \in Seqs(BlockSize) :
              LET r == rbuf_resize(ctx, last.size, failAt, failKind, blk)
              IN r.res = RBUF_OK /\ r.ctx = ctx

\* a resize that returned RBUF_OK after it changed the number of blocks, in
\* a buffer whose store holds blocks left by a failed growth
C9_Witness ==
    /\ last.op = "rbuf_resize" /\ last.res = RBUF_OK
    /\ last.size > 0 /\ last.size % BlockSize # 0
    /\ Held > ctx.cache.block_num

\* C10 as stated: the block count always equals the number of blocks the
\* store holds.
C10_CountIsHeld == ctx.cache.block_num = Held

\* C10 amended: the block count never exceeds the number of blocks the
\* store holds, and the difference changes only in a call during which a
\* store call fails.
C10_CountTracksHeld ==
    /\ [](ctx.cache.block_num <= Held)
    /\ [][~last'.storefail
            => Len(ctx'.bque) - ctx'.cache.block_num
                 = Len(ctx.bque) - ctx.cache.block_num]_vars

\* a resize that returned RBUF_OK and changed the block count while the
\* store holds a block left by an earlier failed growth
C10_Witness ==
    /\ last.op = "rbuf_resize" /\ last.res = RBUF_OK
    /\ ctx.cache.block_num > 0
    /\ Held > ctx.cache.block_num

\* C11: when a growing resize needs k > 0 new blocks and the j-th append
\* fails, the resize returns RBUF_ERR_NO_MEM if the store reported no memory
\* and RBUF_ERR otherwise; the store holds the blocks it held and the j - 1
\* blocks appended before the failure, and block_num, buff_cap, buff_size
\* and last_block_buff_size keep their values.
C11_GrowthFailure ==
    /\ [][(last'.op = "rbuf_resize" /\ last'.storefail)
            => /\ last'.res \in {RBUF_ERR_NO_MEM, RBUF_ERR}
               /\ ctx'.cache = ctx.cache
               /\ \E j \in 1..Growth(ctx, last'.size) :
                     /\ Len(ctx'.bque) = Len(ctx.bque) + j - 1
                     /\ SubSeq(ctx'.bque, 1, Len(ctx.bque)) = ctx.bque]_vars
    /\ [](Ready =>
            \A size \in 0..(Mod - 1) :
            \A j \in 1..Growth(ctx, size) :
            \A failKind \in FailKinds(j), blk \in Seqs(BlockSize) :
               LET r == rbuf_resize(ctx, size, j, failKind, blk)
               IN /\ r.res = IF failKind = BQUE_ERR_NO_MEM
                             THEN RBUF_ERR_NO_MEM ELSE RBUF_ERR
                  /\ r.ctx.cache = ctx.cache
                  /\ r.ctx.bque = ctx.bque \o [i \in 1..(j - 1) |-> blk])

\* a resize of a buffer that holds data fails in its second append
C11_Witness ==
    /\ last.op = "rbuf_resize" /\ last.storefail
    /\ ctx.cache.buff_size > 0
    /\ Held = ctx.cache.block_num + 1

\* C12: in every reachable state the logical size is at most the capacity
\* and at most size_max.
C12_SizeWithinCapacity ==
    /\ ctx.cache.buff_size <= ctx.cache.buff_cap
    /\ ctx.cache.buff_size <= SizeMax

\* C13: in every reachable state last_block_buff_size is determined by the
\* logical size: it is buff_size mod block_size, except that it is block_size
\* when buff_size is a nonzero multiple of block_size; so it is 0 only when
\* buff_size is 0.
C13_LastBlockFill ==
    /\ ctx.cache.last_block_buff_size
           = (IF ctx.cache.buff_size # 0 /\ ctx.cache.buff_size % BlockSize = 0
              THEN BlockSize
              ELSE ctx.cache.buff_size % BlockSize)
    /\ ctx.cache.last_block_buff_size = 0 => ctx.cache.buff_size = 0

\* a resize to exactly two full blocks, in a buffer whose store holds a
\* block left by a failed growth
C13_Witness ==
    /\ last.op = "rbuf_resize" /\ last.res = RBUF_OK
    /\ ctx.cache.buff_size = 2 * BlockSize
    /\ ctx.cache.last_block_buff_size = BlockSize
    /\ Held > ctx.cache.block_num

\* C14: in every reachable state the capacity is block_num * block_size, and
\* the capacity changes only in a step that also changes block_num.
C14_CapacityIsBlocks ==
    /\ [](ctx.cache.buff_cap = ctx.cache.block_num * BlockSize)
    /\ [][ctx'.cache.buff_cap # ctx.cache.buff_cap
            => ctx'.cache.block_num # ctx.cache.block_num]_vars

\* C15: a copy_from, append or copy_to that returns RBUF_OK and whose range
\* crosses a block boundary moves exactly its length bytes, block by block in logical order: source
\* byte i lands at (is read from) logical position offset + i, no memcpy
\* runs past the end of a block or of the caller's buffer, and copy_from
\* changes no byte outside the range.
C15_SplitsAcrossBlocks ==
    [][(last'.res = RBUF_OK /\ Crosses(last'.offs, last'.size, BlockSize))
        => /\ last'.op \in {"rbuf_copy_from", "rbuf_append"}
                => /\ ~last'.oob
                   /\ last'.offs + last'.size <= Len(Flat(ctx'.bque))
                   /\ \A i \in 1..last'.size :
                         Flat(ctx'.bque)[last'.offs + i] = last'.src[i]
                   /\ \A p \in 1..Len(Flat(ctx.bque)) :
                         (p <= last'.offs \/ p > last'.offs + last'.size)
                             => Flat(ctx'.bque)[p] = Flat(ctx.bque)[p]
           /\ last'.op = "rbuf_copy_to"
                => /\ ~last'.oob
                   /\ last'.offs + last'.size <= Len(Flat(ctx.bque))
                   /\ \A i \in 1..last'.size :
                         last'.dest[i] = Flat(ctx.bque)[last'.offs + i]]_vars

\* C16: every block index a copy requests from the store names a held
\* block, so no bque_item fails: in a call during which no store allocation
\* fails, copy_from and append with offset + length <= size_max and copy_to
\* with offset + length <= logical size never return RBUF_ERR.
C16_NoGenericError ==
    [][(~last'.storefail
            /\ \/ /\ last'.op \in {"rbuf_copy_from", "rbuf_append"}
                  /\ last'.offs + last'.size <= ctx.conf.size_max
               \/ /\ last'.op = "rbuf_copy_to"
                  /\ last'.offs + last'.size <= ctx.cache.buff_size)
        => last'.res # RBUF_ERR]_vars

\* C17: a copy_from or append that returns a result other than RBUF_OK
\* leaves the status (block_num, buff_size) and every stored byte below the
\* previous logical size as they were.
C17_CopyFromAllOrNothing ==
    [][(last'.op \in {"rbuf_copy_from", "rbuf_append"}
            /\ last'.res \notin {RBUF_OK, CRASH})
        => /\ rbuf_status(ctx').stat = rbuf_status(ctx).stat
           /\ \A p \in 1..ctx.cache.buff_size :
                 Flat(ctx'.bque)[p] = Flat(ctx.bque)[p]]_vars

\* C18: a copy whose offset + length does not fit an rbuf_u32 (the true sum
\* exceeds every logical size and size_max) touches no byte outside a held
\* block and is rejected: copy_to returns RBUF_ERR_BAD_OFFS or
\* RBUF_ERR_BAD_SIZE, copy_from and append return an error.
C18_WrappingSumRejected ==
    [][(last'.op \in {"rbuf_copy_to", "rbuf_copy_from", "rbuf_append"}
            /\ last'.offs + last'.size >= Mod)
        => /\ ~last'.oob
           /\ last'.op = "rbuf_copy_to"
                => last'.res \in {RBUF_ERR_BAD_OFFS, RBUF_ERR_BAD_SIZE}
           /\ last'.op # "rbuf_copy_to"
                => last'.res \in {RBUF_ERR_BAD_SIZE, RBUF_ERR_NO_MEM, RBUF_ERR}]_vars

\* C19: a copy_from or append of length > 0 whose offset + length exceeds
\* size_max returns RBUF_ERR_BAD_SIZE and writes nothing, also when the
\* range lies within the current capacity.
C19_SizeMaxBoundsWrites ==
    [][(last'.op \in {"rbuf_copy_from", "rbuf_append"}
            /\ last'.size > 0
            /\ last'.offs + last'.size > ctx.conf.size_max
            /\ last'.offs + last'.size <= ctx.cache.buff_cap)
        => (last'.res = RBUF_ERR_BAD_SIZE /\ ctx' = ctx)]_vars

\* C20: a resize that returns RBUF_OK and takes the logical size from A to
\* B changes no stored byte at a logical position below min(A, B), and a
\* copy_to of any range below min(A, B) delivers the same bytes, the stored
\* ones, before and after the resize.
C20_ResizeKeepsPrefix ==
    [][(last'.op = "rbuf_resize" /\ last'.res = RBUF_OK)
        => LET m == IF ctx.cache.buff_size <= ctx'.cache.buff_size
                    THEN ctx.cache.buff_size ELSE ctx'.cache.buff_size
           IN /\ \A p \in 1..m : Flat(ctx'.bque)[p] = Flat(ctx.bque)[p]
              /\ \A offs \in 0..m : \A size \in 0..(m - offs) :
                 \A g \in Byte :
                    /\ rbuf_copy_to(ctx', offs, size, g).dest
                           = rbuf_copy_to(ctx, offs, size, g).dest
                    /\ rbuf_copy_to(ctx, offs, size, g).dest
                           = SubSeq(Flat(ctx.bque), offs + 1, offs + size)]_vars

\* a resize has changed the number of blocks of a buffer that holds a
\* nonzero byte in its first block and whose logical size ends in a later one
C20_Witness ==
    /\ last.op = "rbuf_resize" /\ last.res = RBUF_OK
    /\ ctx.cache.buff_size > BlockSize
    /\ \E p \in 1..BlockSize : Flat(ctx.bque)[p] = 1
    /\ Held > ctx.cache.block_num

====
